---------------------------- MODULE Spec2Model ----------------------------
(***************************************************************************)
(* Message API (FastAPI + SQLAlchemy): the message processor (censorship   *)
(* and metadata), the message repository (save, get_by_session,            *)
(* search_messages) and the message service that orchestrates them.        *)
(*                                                                         *)
(* A Python str is a sequence of characters; a character is a one-element  *)
(* string.  The character U+0131 (LATIN SMALL LETTER DOTLESS I) is written *)
(* "U+0131".  None is the empty tuple and a present optional value x is    *)
(* the one-element tuple <<x>>.                                            *)
(***************************************************************************)
EXTENDS Integers, Sequences, FiniteSets, TLC

VARIABLES db, now, last, calls

vars == <<db, now, last, calls>>

None == <<>>
Some(x) == <<x>>

Min(a, b) == IF a <= b THEN a ELSE b
Max(a, b) == IF a >= b THEN a ELSE b

(***************************************************************************)
(* Bounds of the model.                                                    *)
(***************************************************************************)
MaxTokens == 3
MaxId == 2
MaxListId == 2
MaxTime == 2
MaxLimit == 2
MaxOffset == 2
NumProcs == 2

(***************************************************************************)
(* Characters and Python's str operations on them.                         *)
(***************************************************************************)
\* The characters of the model in code point order.
CharOrder ==
    << " ", "%", "-", "1", "A", "B", "D", "E", "H", "I", "L", "N", "O", "P",
       "R", "T", "U", "X", "_", "a", "b", "d", "e", "h", "i", "l", "n", "o",
       "p", "r", "s", "t", "u", "x", "U+0131" >>

Ord(c) == CHOOSE k \in 1..Len(CharOrder) : CharOrder[k] = c

UpperLower ==
    { <<"A", "a">>, <<"B", "b">>, <<"D", "d">>, <<"E", "e">>, <<"H", "h">>,
      <<"I", "i">>, <<"L", "l">>, <<"N", "n">>, <<"O", "o">>, <<"P", "p">>,
      <<"R", "r">>, <<"T", "t">>, <<"U", "u">>, <<"X", "x">> }

\* str.lower() on one character: U+0131 is already lower case.
LowerChar(c) ==
    IF \E p \in UpperLower : p[1] = c
    THEN (CHOOSE p \in UpperLower : p[1] = c)[2]
    ELSE c

\* str.lower()
Lower(s) == [k \in 1..Len(s) |-> LowerChar(s[k])]

\* \w of a str pattern: letters, digits and the underscore.
IsWordChar(c) ==
    \/ \E p \in UpperLower : c = p[1] \/ c = p[2]
    \/ c \in {"s", "U+0131", "1", "_"}

\* str.isspace()
IsSpace(c) == c = " "

\* Whether subject character c matches the lower-case pattern letter p under
\* re.IGNORECASE: the letters that lower to p, and for i also U+0131.
MatchesIgnoreCase(c, p) ==
    \/ LowerChar(c) = p
    \/ p = "i" /\ c = "U+0131"

\* The order of str comparison: code point by code point, a prefix first.
RECURSIVE StrLess(_, _)
StrLess(a, b) ==
    IF a = <<>> THEN b # <<>>
    ELSE IF b = <<>> THEN FALSE
    ELSE IF Head(a) # Head(b) THEN Ord(Head(a)) < Ord(Head(b))
    ELSE StrLess(Tail(a), Tail(b))

\* sorted(list(S)) for a set of str
RECURSIVE Sorted(_)
Sorted(S) ==
    IF S = {} THEN <<>>
    ELSE LET m == CHOOSE x \in S : \A y \in S \ {x} : StrLess(x, y)
         IN  <<m>> \o Sorted(S \ {m})

\* str.strip()
RECURSIVE LStrip(_)
LStrip(s) == IF s # <<>> /\ IsSpace(Head(s)) THEN LStrip(Tail(s)) ELSE s

RECURSIVE RStrip(_)
RStrip(s) ==
    IF s # <<>> /\ IsSpace(s[Len(s)]) THEN RStrip(SubSeq(s, 1, Len(s) - 1)) ELSE s

Strip(s) == RStrip(LStrip(s))

(***************************************************************************)
(* Values of the message fields.                                           *)
(***************************************************************************)
\* A datetime value at instant t, and an ISO-8601 string for instant t whose
\* UTC designator tz is "Z" or "+00:00".
Datetime(t) == [type |-> "datetime", t |-> t]
IsoStr(t, tz) == [type |-> "str", t |-> t, tz |-> tz]

\* dict.get(key)
Get(d, key) == IF key \in DOMAIN d THEN Some(d[key]) ELSE None

S_Hola == <<"H", "o", "l", "a">>
S_HolaTontoIdiota ==
    S_Hola \o <<" ">> \o <<"t", "o", "n", "t", "o">> \o <<" ">>
           \o <<"i", "d", "i", "o", "t", "a">>
S_HolaMasked == S_Hola \o <<" ", "*", "*", "*", " ", "*", "*", "*">>

(***************************************************************************)
(* MessageService.process_message                                          *)
(***************************************************************************)
W_tonto == <<"t", "o", "n", "t", "o">>
W_idiota == <<"i", "d", "i", "o", "t", "a">>

\* self.bad_words
bad_words == {W_tonto, W_idiota}

MASK == <<"*", "*", "*">>

\* \b at the gap before position k (1-based) of s.
IsWordAt(s, k) == k >= 1 /\ k <= Len(s) /\ IsWordChar(s[k])
WordBoundary(s, k) == IsWordAt(s, k - 1) # IsWordAt(s, k)

\* The compiled pattern \b(w1|w2)\b with re.IGNORECASE matched at position i
\* with alternative w.
MatchAt(s, i, w) ==
    /\ i + Len(w) - 1 <= Len(s)
    /\ \A k \in 1..Len(w) : MatchesIgnoreCase(s[i + k - 1], w[k])
    /\ WordBoundary(s, i)
    /\ WordBoundary(s, i + Len(w))

\* The scan of findall and sub: leftmost match, then on from its end.
\* The result is the sequence of <<start, word>> of the matches from i on.
RECURSIVE Matches(_, _)
Matches(s, i) ==
    IF i > Len(s) THEN <<>>
    ELSE IF \E w \in bad_words : MatchAt(s, i, w)
    THEN LET w == CHOOSE x \in bad_words : MatchAt(s, i, x)
         IN  <<(<<i, w>>)>> \o Matches(s, i + Len(w))
    ELSE Matches(s, i + 1)

\* pattern.findall(original): the text of group 1 of each match.
FindAll(s) ==
    LET ms == Matches(s, 1)
    IN  [k \in 1..Len(ms) |-> SubSeq(s, ms[k][1], ms[k][1] + Len(ms[k][2]) - 1)]

\* A substitution of the first match alone.
RECURSIVE Sub_firstOnly(_, _)
Sub_firstOnly(s, i) ==
    IF i > Len(s) THEN <<>>
    ELSE IF \E w \in bad_words : MatchAt(s, i, w)
    THEN LET w == CHOOSE x \in bad_words : MatchAt(s, i, x)
         IN  MASK \o SubSeq(s, i + Len(w), Len(s))
    ELSE <<s[i]>> \o Sub_firstOnly(s, i + 1)

\* pattern.sub("***", original)
RECURSIVE Sub(_, _)
Sub(s, i) ==
    IF i > Len(s) THEN <<>>
    ELSE IF \E w \in bad_words : MatchAt(s, i, w)
    THEN LET w == CHOOSE x \in bad_words : MatchAt(s, i, x)
         IN  MASK \o Sub(s, i + Len(w))
    ELSE <<s[i]>> \o Sub(s, i + 1)

\* found = {w.lower() for w in pattern.findall(original)}
Found(original) ==
    LET ws == FindAll(original) IN {Lower(ws[k]) : k \in 1..Len(ws)}

\* The length taken of the censored text instead of the original.
Metadata_censoredLength(original) ==
    [length |-> Len(Sub(original, 1)), bad_words |-> Sorted(Found(original))]

\* metadata = {"length": len(original), "bad_words": sorted(list(found))}
Metadata(original) ==
    [length |-> Len(original), bad_words |-> Sorted(Found(original))]

\* data.get("content", "")
GetContent(data) == IF "content" \in DOMAIN data THEN data.content ELSE <<>>

\* dict assignment result[key] = value
SetKey(d, key, value) ==
    [k \in DOMAIN d \cup {key} |-> IF k = key THEN value ELSE d[k]]

\* A process_message that stamps processed_at only when the input has none.
process_message_keepsProcessedAt(data, t) ==
    LET original == GetContent(data)
        r1 == SetKey(data, "content", Sub(original, 1))
        r2 == SetKey(r1, "metadata", Metadata(original))
    IN  IF "processed_at" \in DOMAIN data THEN r2
        ELSE SetKey(r2, "processed_at", Datetime(t))

\* process_message(message) at time t
process_message(data, t) ==
    LET original == GetContent(data)
        r1 == SetKey(data, "content", Sub(original, 1))
        r2 == SetKey(r1, "metadata", Metadata(original))
    IN  SetKey(r2, "processed_at", Datetime(t))


(***************************************************************************)
(* MessageRepository.save                                                  *)
(***************************************************************************)
\* _parse_iso_to_dt(value): None stays None, a datetime is returned as it
\* is, a string has its Z replaced by +00:00 and is parsed.
parse_iso_to_dt(value) ==
    IF value = None THEN None
    ELSE LET v == value[1]
         IN  IF v.type = "datetime" THEN Some(v.t)
             ELSE LET s == IF v.tz = "Z" THEN IsoStr(v.t, "+00:00") ELSE v
                  IN  Some(s.t)

\* The keys save reads with message_data[...]: a missing one is a KeyError.
RequiredKeys == {"message_id", "session_id", "content", "sender"}

\* obj = MessageORM(...)
NewObj(message_data) ==
    [ message_id   |-> message_data.message_id,
      session_id   |-> message_data.session_id,
      content      |-> message_data.content,
      timestamp    |-> parse_iso_to_dt(Get(message_data, "timestamp")),
      sender       |-> message_data.sender,
      processed_at |-> parse_iso_to_dt(Get(message_data, "processed_at")) ]

\* An INSERT that checks no primary key.
PrimaryKeyTaken_unchecked(table, obj) == FALSE

\* The primary key of the messages table: an INSERT of a row whose
\* message_id is already in the table is refused.
PrimaryKeyTaken(table, obj) == \E r \in table : r.message_id = obj.message_id

\* The outcomes of the two round trips of save to the database.
IoOutcomes == {"ok", "commit_fails", "refresh_fails"}

\* A save whose refused INSERT overwrites the row of the same message_id.
save_overwrites(table, message_data, io) ==
    IF ~(RequiredKeys \subseteq DOMAIN message_data)
    THEN [status |-> "KeyError", db |-> table, returned |-> None]
    ELSE LET obj == NewObj(message_data)
         IN  IF io = "commit_fails"
             THEN [status |-> "OperationalError", db |-> table, returned |-> None]
             ELSE IF PrimaryKeyTaken(table, obj)
             THEN [status |-> "IntegrityError",
                   db |-> {r \in table : r.message_id # obj.message_id}
                              \cup {obj},
                   returned |-> None]
             ELSE IF io = "refresh_fails"
             THEN [status |-> "OperationalError", db |-> table \cup {obj},
                   returned |-> None]
             ELSE [status |-> "ok", db |-> table \cup {obj},
                   returned |-> Some(obj)]

\* save(message_data) as a whole on table, with the database answering io:
\* the status, the table afterwards and the object returned.
save(table, message_data, io) ==
    IF ~(RequiredKeys \subseteq DOMAIN message_data)
    THEN [status |-> "KeyError", db |-> table, returned |-> None]
    ELSE LET obj == NewObj(message_data)
         IN  IF io = "commit_fails"
             THEN [status |-> "OperationalError", db |-> table, returned |-> None]
             ELSE IF PrimaryKeyTaken(table, obj)
             THEN [status |-> "IntegrityError", db |-> table, returned |-> None]
             ELSE IF io = "refresh_fails"
             THEN [status |-> "OperationalError", db |-> table \cup {obj},
                   returned |-> None]
             ELSE [status |-> "ok", db |-> table \cup {obj},
                   returned |-> Some(obj)]

(***************************************************************************)
(* MessageService.save_message                                             *)
(***************************************************************************)
\* _ensure_dict(message): model_dump() of a model object, a dict as it is.
ensure_dict(message) == message.data

\* MessageIn.validate_sender
ValidSenders == {"user", "system"}

\* What a caller can pass to save_message: a MessageIn, whose constructor has
\* validated the sender, or a raw mapping.
IsInput(message) ==
    message.kind = "model" =>
        /\ DOMAIN message.data =
               {"message_id", "session_id", "content", "timestamp", "sender"}
        /\ message.data.sender \in ValidSenders
        /\ message.data.timestamp.type = "datetime"

MessageIds(n) == {"m" \o ToString(i) : i \in 1..n}

\* The messages submitted in the model: per message_id a MessageIn, a raw
\* mapping that carries a processed_at and an ISO string, a raw mapping with
\* another sender, and a raw mapping without sender.
Variant(id, k) ==
    CASE k = 1 ->
           [kind |-> "model",
            data |-> [message_id |-> id, session_id |-> "s1",
                      content |-> S_HolaTontoIdiota,
                      timestamp |-> Datetime(1), sender |-> "user"]]
      [] k = 2 ->
           [kind |-> "dict",
            data |-> [message_id |-> id, session_id |-> "s2",
                      content |-> S_Hola,
                      timestamp |-> IsoStr(2, "Z"), sender |-> "system",
                      processed_at |-> Datetime(0)]]
      [] k = 3 ->
           [kind |-> "dict",
            data |-> [message_id |-> id, session_id |-> "s1",
                      content |-> <<"T", "o", "n", "t", "o">>,
                      timestamp |-> Datetime(2), sender |-> "robot"]]
      [] k = 4 ->
           [kind |-> "dict",
            data |-> [message_id |-> id, session_id |-> "s1",
                      content |-> S_Hola,
                      timestamp |-> Datetime(1)]]

StoreInputs == {Variant(id, k) : id \in MessageIds(MaxId), k \in 1..4}

\* No operation has run yet.
NoOp == [op |-> "none"]

\* save_message(message_data) at time now, the database answering io.
save_message(message, io) ==
    /\ last = NoOp
    /\ IsInput(message)
    /\ LET md == ensure_dict(message)
           processed == process_message(md, now)
           saved == save(db, processed, io)
       IN  /\ db' = saved.db
           /\ last' = [op |-> "save_message", input |-> message, io |-> io,
                       before |-> db, processed |-> processed,
                       status |-> saved.status, returned |-> saved.returned]
    /\ UNCHANGED <<now, calls>>

\* repository.save(message_data) called on its own.
CallSave(message_data, io) ==
    /\ last = NoOp
    /\ LET saved == save(db, message_data, io)
       IN  /\ db' = saved.db
           /\ last' = [op |-> "save", input |-> message_data, io |-> io,
                       before |-> db, status |-> saved.status,
                       returned |-> saved.returned]
    /\ UNCHANGED <<now, calls>>

\* The three operations of the API.
POST_messages == "POST /api/messages"
GET_messages == "GET /api/messages/{session_id}"
GET_search == "GET /api/messages/{session_id}/search"
Routes == {POST_messages, GET_messages, GET_search}

\* The caller has the result of the call, and the next call can be made:
\* a request is handled from its start to its end.
EndRequest ==
    /\ last.op \in {"save", "save_message"} \cup Routes
    /\ last' = NoOp
    /\ UNCHANGED <<db, now, calls>>

\* Time passes.
Tick ==
    /\ last = NoOp
    /\ now < MaxTime
    /\ now' = now + 1
    /\ UNCHANGED <<db, last, calls>>

Init ==
    /\ db = {}
    /\ now = 1
    /\ last = NoOp
    /\ calls = <<>>

Next ==
    \/ \E m \in StoreInputs, io \in IoOutcomes : save_message(m, io)
    \/ \E m \in StoreInputs, io \in IoOutcomes : CallSave(m.data, io)
    \/ EndRequest
    \/ Tick

Spec == Init /\ [][Next]_vars


(***************************************************************************)
(* Properties of save and save_message.                                    *)
(***************************************************************************)
IsSave == last.op \in {"save", "save_message"}

\* The mapping the last save handed to the repository.
LastData == IF last.op = "save_message" THEN last.processed ELSE last.input

LastHasKeys == RequiredKeys \subseteq DOMAIN LastData

LastIdTaken == \E r \in last.before : r.message_id = LastData.message_id

\* C1: a save of a message_id that no stored record has succeeds, and a save
\* of a message_id that a stored record has (whatever the session_id and the
\* other fields of either) fails with the duplicate-key error (IntegrityError)
\* and leaves every stored record, the first one included, as it was; no two
\* stored records ever share a message_id.  (The database answers both round
\* trips, or at least the INSERT of the refused save.)
C1_DuplicateSaveRejected ==
    /\ \A r1, r2 \in db : r1.message_id = r2.message_id => r1 = r2
    /\ (IsSave /\ LastHasKeys) =>
         /\ (~LastIdTaken /\ last.io = "ok") =>
               /\ last.status = "ok"
               /\ last.returned = Some(NewObj(LastData))
               /\ db = last.before \cup {NewObj(LastData)}
         /\ (LastIdTaken /\ last.io # "commit_fails") =>
               /\ last.status = "IntegrityError"
               /\ db = last.before

\* A second save of a message_id, from another session and with another
\* content than the stored ones, was refused.
C1_Witness ==
    /\ IsSave /\ LastHasKeys /\ LastIdTaken
    /\ last.status = "IntegrityError"
    /\ \E r \in db :
         /\ r.message_id = LastData.message_id
         /\ r.session_id # LastData.session_id
         /\ r.content # LastData.content

SaveMessageFailed == last.op = "save_message" /\ last.status # "ok"

\* C3 as claimed: whenever save_message fails, the stored records are those
\* of before the call.
C3_FailedSaveLeavesStore == SaveMessageFailed => db = last.before

\* C3 as amended: when save_message fails the stored records are those of
\* before the call, unless it is the refresh after the commit that failed:
\* then the one record of the submitted message has been added, censored
\* and with its processed_at; a failed save_message never leaves a record
\* with uncensored content or without processed_at.
C3_FailedSaveAtomic ==
    SaveMessageFailed =>
        /\ last.io # "refresh_fails" => db = last.before
        /\ \A r \in db \ last.before :
             /\ last.io = "refresh_fails"
             /\ db = last.before \cup {r}
             /\ r.message_id = last.input.data.message_id
             /\ r.content = Sub(last.input.data.content, 1)
             /\ r.processed_at # None

\* A save_message of a stored message_id failed and left the store alone.
C3_Witness ==
    /\ SaveMessageFailed
    /\ last.status = "IntegrityError"
    /\ last.before # {}
    /\ db = last.before

\* The save of the scenario: m1 of session s1 from user with the content
\* "Hola tonto idiota", into an empty store.
ScenarioSaved ==
    /\ last.op = "save_message"
    /\ last.input = Variant("m1", 1)
    /\ last.before = {}
    /\ last.status = "ok"

\* C10 as claimed: the scenario stores the content "Hola *** ***" and its
\* metadata is {length: 18, bad_words: ["idiota", "tonto"]}.
C10_ScenarioLength18 ==
    ScenarioSaved =>
        /\ \A r \in db : r.content = S_HolaMasked
        /\ last.processed.metadata =
               [length |-> 18, bad_words |-> <<W_idiota, W_tonto>>]

\* C10 as amended: the scenario stores the content "Hola *** ***" and its
\* metadata is {length: 17, bad_words: ["idiota", "tonto"]}.
C10_ScenarioLength17 ==
    ScenarioSaved =>
        /\ db = {last.returned[1]}
        /\ \A r \in db : r.message_id = "m1" /\ r.content = S_HolaMasked
        /\ last.processed.metadata =
               [length |-> 17, bad_words |-> <<W_idiota, W_tonto>>]

C10_Witness == ScenarioSaved /\ \E r \in db : r.content = S_HolaMasked


(***************************************************************************)
(* process_message on its own, over contents built of a few tokens.        *)
(***************************************************************************)
Tokens ==
    { W_tonto, <<"T", "o", "n", "t", "o">>,
      W_idiota, <<"I", "D", "I", "O", "T", "A">>,
      <<"U+0131", "d", "U+0131", "o", "t", "a">>,
      S_Hola, <<" ">>, <<"-">>, <<"s">>, <<"_">> }

RECURSIVE Flatten(_)
Flatten(ts) == IF ts = <<>> THEN <<>> ELSE Head(ts) \o Flatten(Tail(ts))

Contents ==
    {Flatten(ts) : ts \in UNION {[1..n -> Tokens] : n \in 0..MaxTokens}}

TextInput(content) ==
    [message_id |-> "m1", session_id |-> "s1", content |-> content,
     timestamp |-> Datetime(1), sender |-> "user"]

\* A call of process_message that is about to run.
InitText ==
    /\ db = {}
    /\ now \in 1..MaxTime
    /\ last \in {[op |-> "call_process_message", input |-> TextInput(c)] :
                   c \in Contents}
    /\ calls = <<>>

\* service.process_message(message)
CallProcessMessage ==
    /\ last.op = "call_process_message"
    /\ last' = [op |-> "process_message", input |-> last.input,
                result |-> process_message(last.input, now)]
    /\ UNCHANGED <<db, now, calls>>

NextText == CallProcessMessage

SpecText == InitText /\ [][NextText]_vars

IsProcess == last.op = "process_message"

\* The whole-word occurrences of forbidden word w in s, case-insensitively:
\* the places where s, lower-cased, reads w between two word boundaries.
Occurrences(s) ==
    { o \in (1..Len(s)) \X bad_words :
        /\ o[1] + Len(o[2]) - 1 <= Len(s)
        /\ Lower(SubSeq(s, o[1], o[1] + Len(o[2]) - 1)) = o[2]
        /\ WordBoundary(s, o[1])
        /\ WordBoundary(s, o[1] + Len(o[2])) }

RECURSIVE Shrink(_)
Shrink(os) ==
    IF os = {} THEN 0
    ELSE LET o == CHOOSE x \in os : TRUE
         IN  (Len(o[2]) - Len(MASK)) + Shrink(os \ {o})

\* By how much masking the occurrences that end before position j moves the
\* character at j to the left.
Shift(s, j) == Shrink({o \in Occurrences(s) : o[1] + Len(o[2]) <= j})

InOccurrence(s, j) ==
    \E o \in Occurrences(s) : o[1] <= j /\ j < o[1] + Len(o[2])

\* out is s with exactly its occurrences replaced by the mask.
MasksExactlyOccurrences(s, out) ==
    /\ Len(out) = Len(s) - Shift(s, Len(s) + 1)
    /\ \A j \in 1..Len(s) :
         ~InOccurrence(s, j) => out[j - Shift(s, j)] = s[j]
    /\ \A o \in Occurrences(s) :
         SubSeq(out, o[1] - Shift(s, o[1]), o[1] - Shift(s, o[1]) + 2) = MASK

\* C8: process_message replaces by *** exactly the whole-word,
\* case-insensitive occurrences of the forbidden words and leaves every
\* other character, and bad_words is the sorted list of the forbidden words
\* that occur, each once.
C8_CensorsWholeWords ==
    IsProcess =>
        /\ MasksExactlyOccurrences(last.input.content, last.result.content)
        /\ last.result.metadata.bad_words =
               Sorted({w \in bad_words :
                         \E o \in Occurrences(last.input.content) : o[2] = w})

\* C9: the length of the metadata is the number of characters of the
\* content before censorship; it is not the length of the censored content
\* whenever a word was masked.
C9_LengthBeforeCensorship ==
    IsProcess =>
        /\ last.result.metadata.length = Len(last.input.content)
        /\ Matches(last.input.content, 1) # <<>> =>
               last.result.metadata.length # Len(last.result.content)

\* A content with a masked word was processed.
C9_Witness ==
    /\ IsProcess
    /\ Matches(last.input.content, 1) # <<>>
    /\ last.result.metadata.length > Len(last.result.content)


(***************************************************************************)
(* MessageRepository.get_by_session and MessageService.get_messages        *)
(***************************************************************************)
\* The instant of a stored timestamp.
TimestampOf(r) == r.timestamp[1]

\* The sequences that list every row of rows once, in ascending timestamp:
\* ORDER BY timestamp ASC names no second column, so rows of one timestamp
\* come in an order the database chooses, query by query.
OrderByTimestamp(rows) ==
    { f \in [1..Cardinality(rows) -> rows] :
        /\ \A i, j \in DOMAIN f : i # j => f[i] # f[j]
        /\ \A i, j \in DOMAIN f : i < j => TimestampOf(f[i]) <= TimestampOf(f[j]) }

\* .offset(offset).limit(limit) on an ordered result
OffsetLimit(ordered, offset, limit) ==
    SubSeq(ordered, offset + 1, Min(Len(ordered), offset + limit))

\* Python's truth value of an optional str: None and "" are false.
Truthy(opt) == opt # None /\ opt[1] # ""

\* A filter on the session alone, whatever the sender.
SessionFilter_ignoresSender(table, session_id, sender) ==
    {r \in table : r.session_id = session_id}

\* The rows the filters of get_by_session keep.
SessionFilter(table, session_id, sender) ==
    { r \in table :
        /\ r.session_id = session_id
        /\ Truthy(sender) => r.sender = sender[1] }

\* The results get_by_session can return.
get_by_session(table, session_id, limit, offset, sender) ==
    { OffsetLimit(ordered, offset, limit) :
        ordered \in OrderByTimestamp(SessionFilter(table, session_id, sender)) }

SessionIds == {"s1", "s2"}

\* The rows of the tables listed in the model.
ListRow(id, session_id, sender, t) ==
    [ message_id |-> id, session_id |-> session_id, content |-> S_Hola,
      timestamp |-> Some(t), sender |-> sender, processed_at |-> Some(1) ]

ListRows ==
    { ListRow(id, sid, sender, t) :
        id \in MessageIds(MaxListId), sid \in SessionIds,
        sender \in ValidSenders, t \in 1..MaxTime }

\* The tables saves can build from rows: per message_id no row or one row.
TablesOf(rows) ==
    LET ids == {r.message_id : r \in rows}
        choices == { ch \in [ids -> {None} \cup {Some(r) : r \in rows}] :
                       \A i \in ids : ch[i] # None => ch[i][1].message_id = i }
    IN  { {ch[i][1] : i \in {j \in ids : ch[j] # None}} : ch \in choices }

SenderParams == {None, Some(""), Some("user"), Some("system")}

ListCalls ==
    { [op |-> "call_get_messages", session_id |-> sid, limit |-> limit,
       offset |-> offset, sender |-> sender] :
        sid \in SessionIds, limit \in 0..MaxLimit, offset \in 0..MaxOffset,
        sender \in SenderParams }
    \cup
    { [op |-> "call_pages", session_id |-> sid, limit |-> limit] :
        sid \in SessionIds, limit \in 1..MaxLimit }

\* A table and a call that is about to run on it.
InitList ==
    /\ db \in TablesOf(ListRows)
    /\ now = 1
    /\ last \in ListCalls
    /\ calls = <<>>

\* service.get_messages(session_id, limit, offset, sender)
get_messages ==
    /\ last.op = "call_get_messages"
    /\ \E results \in get_by_session(db, last.session_id, last.limit,
                                   last.offset, last.sender) :
         last' = [op |-> "get_messages", session_id |-> last.session_id,
                  limit |-> last.limit, offset |-> last.offset,
                  sender |-> last.sender, results |-> results]
    /\ UNCHANGED <<db, now, calls>>

\* The page offsets 0, L, 2L, ... below n.
PageOffsets(n, limit) == {o \in 0..(n - 1) : o % limit = 0}

\* A client that reads a session page by page: get_by_session with the same
\* limit at the offsets 0, L, 2L, ..., one query per page.
GetPages ==
    /\ last.op = "call_pages"
    /\ LET n == Cardinality(SessionFilter(db, last.session_id, None))
           offsets == PageOffsets(n, last.limit)
       IN  \E pages \in [offsets -> UNION {get_by_session(db, last.session_id,
                                             last.limit, o, None) : o \in offsets}] :
             /\ \A o \in offsets :
                  pages[o] \in get_by_session(db, last.session_id, last.limit, o, None)
             /\ last' = [op |-> "pages", session_id |-> last.session_id,
                         limit |-> last.limit, pages |-> pages]
    /\ UNCHANGED <<db, now, calls>>

NextList ==
    \/ get_messages
    \/ GetPages

SpecList == InitList /\ [][NextList]_vars


(***************************************************************************)
(* Properties of get_by_session.                                           *)
(***************************************************************************)
IsList == last.op = "get_messages"

NonDecreasing(results) ==
    \A i, j \in 1..Len(results) :
        i < j => TimestampOf(results[i]) <= TimestampOf(results[j])

SessionRows(session_id) == {r \in db : r.session_id = session_id}

\* How many times row r is in the pages read.
TimesRead(r) ==
    Cardinality({ x \in (DOMAIN last.pages) \X (1..MaxLimit) :
                    /\ x[2] <= Len(last.pages[x[1]])
                    /\ last.pages[x[1]][x[2]] = r })

\* The count and the order of one page.
PageCountAndOrder ==
    (IsList /\ last.sender = None) =>
        /\ Len(last.results) =
               Min(last.limit,
                   Max(0, Cardinality(SessionRows(last.session_id)) - last.offset))
        /\ NonDecreasing(last.results)

\* C4: get_by_session(session, limit=L, offset=O) returns
\* min(L, max(0, N-O)) records of the session in non-decreasing timestamp
\* order, and the pages read at the offsets 0, L, 2L, ... hold every record of
\* the session exactly once, also when records share a timestamp.
C4_PagesPartitionSession ==
    /\ PageCountAndOrder
    /\ last.op = "pages" =>
         \A r \in SessionRows(last.session_id) : TimesRead(r) = 1

\* The rows a filter on the session and on exactly the sender given keeps.
ExactlySender(session_id, sender) ==
    {r \in SessionRows(session_id) : sender # None => r.sender = sender[1]}

IsPageOf(results, rows) ==
    \E ordered \in OrderByTimestamp(rows) :
        results = OffsetLimit(ordered, last.offset, last.limit)

\* C5 as claimed: the records returned are of the session asked for; with a
\* sender given they are a page of exactly the records of the session with
\* that sender, and with none a page of all the records of the session.
C5_SenderFilterExact ==
    IsList =>
        /\ \A k \in 1..Len(last.results) :
             last.results[k].session_id = last.session_id
        /\ IsPageOf(last.results, ExactlySender(last.session_id, last.sender))

\* C5 as amended: the records returned are of the session asked for; with a
\* non-empty sender given they are a page of exactly the records of the
\* session with that sender; with no sender or the empty string they are a
\* page of all the records of the session.
C5_SenderFilterNonEmpty ==
    IsList =>
        /\ \A k \in 1..Len(last.results) :
             last.results[k].session_id = last.session_id
        /\ (last.sender # None /\ last.sender # Some("")) =>
             /\ \A k \in 1..Len(last.results) :
                  last.results[k].sender = last.sender[1]
             /\ IsPageOf(last.results,
                         ExactlySender(last.session_id, last.sender))
        /\ (last.sender = None \/ last.sender = Some("")) =>
             IsPageOf(last.results, SessionRows(last.session_id))

\* A listing by sender returned a record and left out the record of the
\* other sender in the session.
C5_Witness ==
    /\ IsList
    /\ last.sender = Some("user")
    /\ last.results # <<>>
    /\ \E r \in db : r.session_id = last.session_id /\ r.sender = "system"


(***************************************************************************)
(* MessageRepository.search_messages and MessageService.search_messages    *)
(***************************************************************************)
\* SQL's  s LIKE p : % stands for any characters, _ for any one character,
\* every other character for itself.
RECURSIVE Like(_, _)
Like(p, s) ==
    IF p = <<>> THEN s = <<>>
    ELSE IF Head(p) = "%"
    THEN Like(Tail(p), s) \/ (s # <<>> /\ Like(p, Tail(s)))
    ELSE /\ s # <<>>
         /\ Head(p) = "_" \/ Head(p) = Head(s)
         /\ Like(Tail(p), Tail(s))

\* content.ilike(pattern): lower(content) LIKE lower(pattern)
ILike(content, pattern) == Like(Lower(pattern), Lower(content))

\* The rows the filters of search_messages keep: f"%{query}%"
SearchFilter(table, session_id, query) ==
    { r \in table :
        /\ r.session_id = session_id
        /\ ILike(r.content, <<"%">> \o query \o <<"%">>) }

\* The results repository.search_messages can return.
repository_search_messages(table, session_id, query, limit, offset) ==
    { OffsetLimit(ordered, offset, limit) :
        ordered \in OrderByTimestamp(SearchFilter(table, session_id, query)) }

\* A length check that does not strip the query.
QueryTooShort_unstripped(query) == query = None \/ Len(query[1]) < 2

\* not query or len(query.strip()) < 2
QueryTooShort(query) ==
    \/ query = None
    \/ query[1] = <<>>
    \/ Len(Strip(query[1])) < 2

S_TextoDePrueba ==
    << "T", "e", "x", "t", "o", " ", "d", "e", " ",
       "P", "r", "u", "e", "b", "a" >>
S_texto == <<"t", "e", "x", "t", "o">>
S_TEXTO == <<"T", "E", "X", "T", "O">>

SearchContents == {S_TextoDePrueba, <<"a", "x", "b">>, <<"a", "_", "b">>}

SearchRows ==
    { [ message_id |-> id, session_id |-> sid, content |-> content,
        timestamp |-> Some(t), sender |-> "user", processed_at |-> Some(1) ] :
        id \in MessageIds(MaxId), sid \in SessionIds,
        content \in SearchContents, t \in 1..MaxTime }

Queries ==
    { None, Some(<<>>), Some(<<"a">>), Some(<<" ", "a", " ">>),
      Some(<<" ", " ">>), Some(<<" ", "x", "b">>), Some(S_texto),
      Some(S_TEXTO), Some(<<"a", "_", "b">>), Some(<<"a", "%">>) }

SearchCalls ==
    { [op |-> fn, session_id |-> sid, query |-> query, limit |-> limit,
       offset |-> offset] :
        fn \in {"call_search_messages", "call_repo_search_messages"},
        sid \in SessionIds, query \in Queries,
        limit \in 0..MaxLimit, offset \in 0..MaxOffset }

\* A table and a search that is about to run on it; the repository is not
\* called without a query.
InitSearch ==
    /\ db \in TablesOf(SearchRows)
    /\ now = 1
    /\ last \in { c \in SearchCalls :
                    c.op = "call_repo_search_messages" => c.query # None }
    /\ calls = <<>>

\* service.search_messages(session_id, query, limit, offset); store_calls
\* lists the calls it made to the repository.
search_messages ==
    /\ last.op = "call_search_messages"
    /\ IF QueryTooShort(last.query)
       THEN last' = [op |-> "search_messages", session_id |-> last.session_id,
                     query |-> last.query, limit |-> last.limit,
                     offset |-> last.offset, status |-> "ValueError",
                     store_calls |-> <<>>, results |-> <<>>]
       ELSE \E results \in repository_search_messages(db, last.session_id,
                               last.query[1], last.limit, last.offset) :
              last' = [op |-> "search_messages", session_id |-> last.session_id,
                       query |-> last.query, limit |-> last.limit,
                       offset |-> last.offset, status |-> "ok",
                       store_calls |->
                           << [fn |-> "search_messages",
                               session_id |-> last.session_id,
                               query |-> last.query[1],
                               limit |-> last.limit, offset |-> last.offset] >>,
                       results |-> results]
    /\ UNCHANGED <<db, now, calls>>

\* repository.search_messages(session_id, query, limit, offset) called on
\* its own.
CallRepositorySearch ==
    /\ last.op = "call_repo_search_messages"
    /\ \E results \in repository_search_messages(db, last.session_id, last.query[1],
                                         last.limit, last.offset) :
         last' = [op |-> "repo_search_messages", session_id |-> last.session_id,
                  query |-> last.query, limit |-> last.limit,
                  offset |-> last.offset, status |-> "ok",
                  results |-> results]
    /\ UNCHANGED <<db, now, calls>>

NextSearch ==
    \/ search_messages
    \/ CallRepositorySearch

SpecSearch == InitSearch /\ [][NextSearch]_vars

(***************************************************************************)
(* Properties of the searches.                                             *)
(***************************************************************************)
\* t is a substring of s, character for character.
Contains(s, t) ==
    \E i \in 0..(Len(s) - Len(t)) : SubSeq(s, i + 1, i + Len(t)) = t

\* The rows of the session whose content, case aside, contains the text.
ContainingRows(session_id, text) ==
    {r \in SessionRows(session_id) : Contains(Lower(r.content), Lower(text))}

SearchRan ==
    \/ last.op = "repo_search_messages"
    \/ last.op = "search_messages" /\ last.status = "ok"

\* C6: a search returns a page of exactly the records of the session whose
\* content contains the text as a case-insensitive substring, every
\* character of the text taken as itself.
C6_SearchIsSubstring ==
    SearchRan =>
        IsPageOf(last.results, ContainingRows(last.session_id, last.query[1]))

\* The length of s without the white space at its two ends.
TrimmedLen(s) ==
    LET inked == {k \in 1..Len(s) : ~IsSpace(s[k])}
    IN  IF inked = {} THEN 0
        ELSE (CHOOSE k \in inked : \A j \in inked : j <= k)
               - (CHOOSE k \in inked : \A j \in inked : k <= j) + 1

\* C7: search_messages with no query or with a query of fewer than two
\* characters once trimmed fails with ValueError and calls no repository
\* method; any other query is handed to repository.search_messages.
C7_ShortQueryRejected ==
    last.op = "search_messages" =>
        IF last.query = None \/ TrimmedLen(last.query[1]) < 2
        THEN last.status = "ValueError" /\ last.store_calls = <<>>
        ELSE /\ last.status = "ok"
             /\ last.store_calls =
                    << [fn |-> "search_messages",
                        session_id |-> last.session_id,
                        query |-> last.query[1],
                        limit |-> last.limit, offset |-> last.offset] >>
             /\ last.results \in repository_search_messages(db, last.session_id,
                                     last.query[1], last.limit, last.offset)

\* A query of two characters that trims to fewer was refused.
C7_Witness ==
    /\ last.op = "search_messages"
    /\ last.query # None
    /\ Len(last.query[1]) >= 2
    /\ last.status = "ValueError"
    /\ last.store_calls = <<>>
    /\ db # {}


(***************************************************************************)
(* Concurrent requests: each runs save_message on a database session of    *)
(* its own; the commit (the INSERT) and the refresh (a SELECT) are the     *)
(* steps at which the requests meet in the database.                       *)
(***************************************************************************)
Procs == 1..NumProcs

Idle == [pc |-> "idle"]

InitConc ==
    /\ db = {}
    /\ now = 1
    /\ last = NoOp
    /\ calls = [p \in Procs |-> Idle]

\* save_message up to db.add(obj): _ensure_dict, process_message and the
\* construction of the object, all local to the request.
Start(p, message) ==
    /\ calls[p].pc = "idle"
    /\ IsInput(message)
    /\ LET processed == process_message(ensure_dict(message), now)
       IN  calls' = [calls EXCEPT ![p] =
               IF RequiredKeys \subseteq DOMAIN processed
               THEN [pc |-> "pending", input |-> message,
                     obj |-> NewObj(processed)]
               ELSE [pc |-> "failed", input |-> message,
                     status |-> "KeyError"]]
    /\ UNCHANGED <<db, now, last>>

\* db.commit(): the INSERT of the pending object and the COMMIT.
Commit(p) ==
    /\ calls[p].pc = "pending"
    /\ \/ /\ calls' = [calls EXCEPT ![p] =
                 [pc |-> "failed", input |-> calls[p].input,
                  obj |-> calls[p].obj, status |-> "OperationalError"]]
          /\ db' = db
       \/ /\ PrimaryKeyTaken(db, calls[p].obj)
          /\ calls' = [calls EXCEPT ![p] =
                 [pc |-> "failed", input |-> calls[p].input,
                  obj |-> calls[p].obj, status |-> "IntegrityError"]]
          /\ db' = db
       \/ /\ ~PrimaryKeyTaken(db, calls[p].obj)
          /\ calls' = [calls EXCEPT ![p].pc = "committed"]
          /\ db' = db \cup {calls[p].obj}
    /\ UNCHANGED <<now, last>>

\* db.refresh(obj) and the return: the row is read back by its primary key.
Refresh(p) ==
    /\ calls[p].pc = "committed"
    /\ \/ calls' = [calls EXCEPT ![p] =
              [pc |-> "failed", input |-> calls[p].input,
               obj |-> calls[p].obj, status |-> "OperationalError"]]
       \/ \E r \in db :
            /\ r.message_id = calls[p].obj.message_id
            /\ calls' = [calls EXCEPT ![p] =
                   [pc |-> "done", input |-> calls[p].input,
                    obj |-> calls[p].obj, status |-> "ok", returned |-> r]]
    /\ UNCHANGED <<db, now, last>>

NextConc ==
    \/ \E p \in Procs, m \in StoreInputs : Start(p, m)
    \/ \E p \in Procs : Commit(p)
    \/ \E p \in Procs : Refresh(p)
    \/ Tick

SpecConc == InitConc /\ [][NextConc]_vars

(***************************************************************************)
(* Properties of concurrent saves.                                         *)
(***************************************************************************)
\* The requests that save message_id id.
SaversOf(id) ==
    {p \in Procs : "obj" \in DOMAIN calls[p] /\ calls[p].obj.message_id = id}

Finished(p) == calls[p].pc \in {"done", "failed"}

\* C2: of the concurrent save calls of one message_id, once all have ended
\* and the database has answered each of them, exactly one has succeeded and
\* every other one has seen the duplicate-key error (IntegrityError), and the
\* store holds exactly one record of that message_id, with the fields of the
\* call that succeeded and returned to it; at no time does the store hold
\* two records of one message_id or a record that no call wrote.
C2_OneConcurrentSaveWins ==
    /\ \A r1, r2 \in db : r1.message_id = r2.message_id => r1 = r2
    /\ \A r \in db : \E p \in SaversOf(r.message_id) :
           calls[p].obj = r /\ calls[p].pc # "pending"
    /\ \A id \in MessageIds(MaxId) :
         LET savers == SaversOf(id)
         IN  ( /\ savers # {}
               /\ \A p \in savers :
                    Finished(p) /\ calls[p].status # "OperationalError" )
             => \E w \in savers :
                  /\ calls[w].status = "ok"
                  /\ calls[w].returned = calls[w].obj
                  /\ {r \in db : r.message_id = id} = {calls[w].obj}
                  /\ \A p \in savers \ {w} :
                       calls[p].status = "IntegrityError"

\* Two calls of one message_id with different fields have ended, one with
\* success and one with the duplicate-key error.
C2_Witness ==
    \E p, q \in Procs :
        /\ p # q
        /\ calls[p].pc = "done"
        /\ calls[q].pc = "failed" /\ calls[q].status = "IntegrityError"
        /\ calls[q].obj.message_id = calls[p].obj.message_id
        /\ calls[q].obj.session_id # calls[p].obj.session_id
        /\ calls[p].obj \in db


(***************************************************************************)
(* The API: require_api_key and the three operations of main.py            *)
(***************************************************************************)
EXPECTED_API_KEY == "mi-api-key-secreta"

\* The x-api-key headers of the requests: none, the expected one, another
\* one and an empty one.
ApiKeys == {None, Some(EXPECTED_API_KEY), Some("clave-mala"), Some("")}

\* No HTTPException was raised: the status of a request that goes on.
HTTP_OK == 200

\* A require_api_key that only checks that a key was sent.
require_api_key_anyKey(x_api_key) ==
    IF x_api_key = None THEN 401 ELSE HTTP_OK

\* require_api_key(x_api_key): the status of the HTTPException it raises,
\* or HTTP_OK when it returns the key.
require_api_key(x_api_key) ==
    IF x_api_key = None THEN 401
    ELSE IF x_api_key[1] # EXPECTED_API_KEY THEN 403
    ELSE HTTP_OK

\* The fields of MessageIn.
MessageInFields ==
    {"message_id", "session_id", "content", "timestamp", "sender"}

\* MessageIn built from a request body: None when a field is missing or
\* validate_sender raises, else the model with its five fields (a field
\* MessageIn does not declare is dropped, the timestamp becomes a datetime).
MessageIn(body) ==
    IF ~(MessageInFields \subseteq DOMAIN body) THEN None
    ELSE IF body.sender \notin ValidSenders THEN None
    ELSE Some([kind |-> "model",
               data |-> [message_id |-> body.message_id,
                         session_id |-> body.session_id,
                         content    |-> body.content,
                         timestamp  |-> Datetime(body.timestamp.t),
                         sender     |-> body.sender]])

\* The request bodies of POST /api/messages.
Bodies == {m.data : m \in StoreInputs}

\* isinstance(e, sqlalchemy.exc.IntegrityError)
IsIntegrityError(e) == e = "IntegrityError"

\* e.__cause__: SQLAlchemy chains the driver's exception to its own.
ExceptionCause(e) ==
    CASE e = "IntegrityError"   -> "dbapi.IntegrityError"
      [] e = "OperationalError" -> "dbapi.OperationalError"
      [] OTHER                  -> "None"

\* A create_message whose except clause answers 500 whatever the exception.
create_message_status_always500(raised) ==
    IF raised = "ok" THEN HTTP_OK ELSE 500

\* The status create_message answers with when save_message returned
\* ("ok") or raised.
create_message_status(raised) ==
    IF raised = "ok" THEN HTTP_OK
    ELSE IF IsIntegrityError(ExceptionCause(raised)) \/ IsIntegrityError(raised)
    THEN 400
    ELSE 500

\* The response of a request that did not reach the service.
Rejected(route, request, x_api_key, status_code) ==
    [op |-> route, request |-> request, x_api_key |-> x_api_key,
     before |-> db, status_code |-> status_code, performed |-> <<>>,
     raised |-> "none", processed |-> None, results |-> <<>>]

\* POST /api/messages with a body, an x-api-key header and the database
\* answering io.
create_message(body, x_api_key, io) ==
    /\ last = NoOp
    /\ LET api_key == require_api_key(x_api_key)
           message == MessageIn(body)
       IN  IF api_key # HTTP_OK
           THEN /\ last' = Rejected(POST_messages, body, x_api_key, api_key)
                /\ db' = db
           ELSE IF message = None
           THEN /\ last' = Rejected(POST_messages, body, x_api_key, 422)
                /\ db' = db
           ELSE LET md == ensure_dict(message[1])
                    processed == process_message(md, now)
                    saved == save(db, processed, io)
                IN  /\ db' = saved.db
                    /\ last' = [op |-> POST_messages, request |-> body,
                                x_api_key |-> x_api_key, io |-> io,
                                before |-> db,
                                status_code |->
                                    create_message_status(saved.status),
                                performed |-> <<"save_message", "save">>,
                                raised |-> saved.status,
                                processed |-> Some(processed),
                                results |-> <<>>]
    /\ UNCHANGED <<now, calls>>

\* limit: int = 10, offset: int = 0
DefaultLimit == 10
DefaultOffset == 0

ApiSenders == {None, Some("user")}

\* GET /api/messages/{session_id} with the default limit and offset.
get_messages_endpoint(session_id, sender, x_api_key) ==
    /\ last = NoOp
    /\ LET api_key == require_api_key(x_api_key)
           request == [session_id |-> session_id, sender |-> sender]
       IN  IF api_key # HTTP_OK
           THEN last' = Rejected(GET_messages, request, x_api_key, api_key)
           ELSE \E results \in get_by_session(db, session_id, DefaultLimit,
                                              DefaultOffset, sender) :
                  last' = [op |-> GET_messages, request |-> request,
                           x_api_key |-> x_api_key, before |-> db,
                           status_code |-> HTTP_OK,
                           performed |-> <<"get_messages", "get_by_session">>,
                           raised |-> "ok", processed |-> None,
                           results |-> results]
    /\ UNCHANGED <<db, now, calls>>

\* The q parameters of the search requests: a text of the stored contents,
\* one character, and two spaces.
ApiQueries == {<<"h", "o", "l", "a">>, <<"a">>, <<" ", " ">>}

\* GET /api/messages/{session_id}/search with the default limit and offset:
\* q has min_length=2, and the service raises ValueError on a query that is
\* too short once stripped, which no handler of main.py catches.
search_messages_endpoint(session_id, q, x_api_key) ==
    /\ last = NoOp
    /\ LET api_key == require_api_key(x_api_key)
           request == [session_id |-> session_id, q |-> q]
       IN  IF api_key # HTTP_OK
           THEN last' = Rejected(GET_search, request, x_api_key, api_key)
           ELSE IF Len(q) < 2
           THEN last' = Rejected(GET_search, request, x_api_key, 422)
           ELSE IF QueryTooShort(Some(q))
           THEN last' = [op |-> GET_search, request |-> request,
                         x_api_key |-> x_api_key, before |-> db,
                         status_code |-> 500,
                         performed |-> <<"search_messages">>,
                         raised |-> "ValueError", processed |-> None,
                         results |-> <<>>]
           ELSE \E results \in repository_search_messages(db, session_id, q,
                                   DefaultLimit, DefaultOffset) :
                  last' = [op |-> GET_search, request |-> request,
                           x_api_key |-> x_api_key, before |-> db,
                           status_code |-> HTTP_OK,
                           performed |->
                               <<"search_messages", "repository.search_messages">>,
                           raised |-> "ok", processed |-> None,
                           results |-> results]
    /\ UNCHANGED <<db, now, calls>>

\* The service called directly (as the unit tests do) and through the API,
\* from an empty database.
NextApi ==
    \/ \E m \in StoreInputs, io \in IoOutcomes : save_message(m, io)
    \/ \E body \in Bodies, k \in ApiKeys, io \in IoOutcomes :
           create_message(body, k, io)
    \/ \E sid \in SessionIds, sender \in ApiSenders, k \in ApiKeys :
           get_messages_endpoint(sid, sender, k)
    \/ \E sid \in SessionIds, q \in ApiQueries, k \in ApiKeys :
           search_messages_endpoint(sid, q, k)
    \/ EndRequest
    \/ Tick

SpecApi == Init /\ [][NextApi]_vars

(***************************************************************************)
(* Claims on SpecApi                                                       *)
(***************************************************************************)
\* The last call ran save_message: directly, or through POST /api/messages.
RanSaveMessage ==
    \/ last.op = "save_message"
    \/ last.op = POST_messages /\ last.performed # <<>>

\* The failure save_message raised, or "ok".
Raised == IF last.op = "save_message" THEN last.status ELSE last.raised

\* The message save_message processed and handed to the repository.
Processed ==
    IF last.op = "save_message" THEN last.processed ELSE last.processed[1]

\* The records the last call persisted.
Persisted == db \ last.before

\* What the submitted input looked like.
Submitted ==
    IF last.op = "save_message" THEN last.input.data ELSE last.request

\* A record persisted by save_message carries the time of this save, which
\* is not null, whatever the input carried.
StampedAtSave ==
    RanSaveMessage =>
        \A r \in Persisted :
            /\ r.processed_at # None
            /\ r.processed_at = Some(now)

\* A step keeps every stored record, its processed_at included.
KeepsProcessedAt ==
    \A r \in db :
        \E r2 \in db' :
            /\ r2.message_id = r.message_id
            /\ r2.processed_at = r.processed_at

\* C11: every record persisted through saveMessage has a non-null
\* processed_at equal to the time the Processor stamped during that save,
\* whatever processed_at the submitted input carried, and no later
\* saveMessage, getMessages or searchMessages call changes the processed_at
\* of a stored record.
C11_ProcessedAtStampedOnce ==
    [](StampedAtSave) /\ [][KeepsProcessedAt]_vars

\* A saveMessage of an input that carries its own processed_at persists a
\* record, next to a record stamped by an earlier save at another time.
C11_Witness ==
    /\ last.op = "save_message"
    /\ last.status = "ok"
    /\ "processed_at" \in DOMAIN last.input.data
    /\ Persisted # {}
    /\ \E r \in last.before : r.processed_at # Some(now)
    /\ last.before \subseteq db

\* The last call submitted a message to saveMessage or to the create
\* operation with a sender that is neither "user" nor "system".
SubmittedOtherSender ==
    /\ last.op \in {"save_message", POST_messages}
    /\ "sender" \in DOMAIN Submitted
    /\ Submitted.sender \notin ValidSenders

\* C12: after any sequence of saveMessage calls, with model objects or raw
\* mappings, every stored record has sender "user" or "system": a submission
\* with another sender is rejected before persistence and leaves the store
\* unchanged.
C12_StoredSendersValid ==
    /\ \A r \in db : r.sender \in ValidSenders
    /\ SubmittedOtherSender =>
           /\ db = last.before
           /\ Raised # "ok"

\* POST /api/messages with another sender is answered 422 before the
\* service is reached.
ApiRejectsOtherSender ==
    (SubmittedOtherSender /\ last.op = POST_messages
        /\ last.x_api_key = Some(EXPECTED_API_KEY)) =>
        /\ last.status_code = 422
        /\ last.performed = <<>>
        /\ db = last.before

\* The record save_message hands to the repository has the keys save reads.
ProcessedHasKeys == RequiredKeys \subseteq DOMAIN Processed

\* The message_id submitted is the one of a stored record.
ProcessedIdTaken ==
    \E r \in last.before : r.message_id = Processed.message_id

\* What Store.save raised inside the last saveMessage, stated from the
\* input, the store of before and the database's answers: the uniqueness
\* violation (DuplicateKey), the I/O failure (StorageUnavailable), another
\* failure (the KeyError of a mapping without a field), or none.
StoreFailure ==
    IF ~ProcessedHasKeys THEN "other"
    ELSE IF last.io = "commit_fails" THEN "StorageUnavailable"
    ELSE IF ProcessedIdTaken THEN "DuplicateKey"
    ELSE IF last.io = "refresh_fails" THEN "StorageUnavailable"
    ELSE "none"

\* saveMessage passes DuplicateKey and StorageUnavailable on as the
\* exceptions of the store, which differ from each other and from success.
PassesStoreFailures ==
    RanSaveMessage =>
        /\ StoreFailure = "DuplicateKey" => Raised = "IntegrityError"
        /\ StoreFailure = "StorageUnavailable" => Raised = "OperationalError"
        /\ StoreFailure = "none" => Raised = "ok"

\* The create operation answers 400 to DuplicateKey, 500 to every other
\* failure, and 200 only when saveMessage returned.
CreateStatusMapping ==
    (last.op = POST_messages /\ last.performed # <<>>) =>
        /\ StoreFailure = "DuplicateKey" => last.status_code = 400
        /\ StoreFailure \in {"StorageUnavailable", "other"} =>
               last.status_code = 500
        /\ last.status_code = HTTP_OK =>
               /\ StoreFailure = "none"
               /\ Persisted # {}

\* The generic processing failure of the service.
GenericFailure == "ProcessingError"

IsRequest == last.op \in Routes

\* C14: every request to create, list or search is gated by the shared
\* secret: without a credential the answer is 401, with a credential other
\* than the expected one it is 403, in both cases no operation of the
\* service or the store is performed and the store is untouched; only a
\* request with exactly the expected credential reaches the service.
C14_RequestsGated ==
    IsRequest =>
        /\ last.x_api_key = None =>
               /\ last.status_code = 401
               /\ last.performed = <<>>
               /\ db = last.before
        /\ (last.x_api_key # None /\ last.x_api_key[1] # EXPECTED_API_KEY) =>
               /\ last.status_code = 403
               /\ last.performed = <<>>
               /\ db = last.before
        /\ last.performed # <<>> => last.x_api_key = Some(EXPECTED_API_KEY)

\* A request with another credential was answered 403 on a store that holds
\* records, which it left as they were.
C14_Witness ==
    /\ IsRequest
    /\ last.x_api_key = Some("clave-mala")
    /\ last.status_code = 403
    /\ last.performed = <<>>
    /\ db # {}
    /\ db = last.before

=============================================================================
